---- MODULE Spec2Model ----
(***************************************************************************)
(* A model of manu (stllfe/manuscript): the session controller of          *)
(* script.py, the hook registry of hooks.py, the validation context of     *)
(* context.py and the reference resolver of model.py.                      *)
(*                                                                         *)
(* Python strings are sequences of one-character strings, so that the      *)
(* regular expressions, str.replace, str.split and startswith of the       *)
(* source are computed and not assumed.  Python values are tagged records: *)
(*   [t |-> "str", s |-> <<chars>>]   [t |-> "int", n |-> 42]              *)
(*   [t |-> "dict", d |-> <<[k |-> key, v |-> value], ...>>]  (ordered)    *)
(***************************************************************************)
EXTENDS Integers, Sequences, FiniteSets, TLC

(***************************************************************************)
(* Strings                                                                 *)
(***************************************************************************)

\* str.startswith(p)
StartsWith(s, p) ==
  /\ Len(s) >= Len(p)
  /\ SubSeq(s, 1, Len(p)) = p

\* `p in s` for strings
Contains(s, p) ==
  \E i \in 1..(Len(s) - Len(p) + 1) : SubSeq(s, i, i + Len(p) - 1) = p

\* index of the first c at or after position i, 0 when there is none
RECURSIVE FindChar(_, _, _)
FindChar(s, c, i) ==
  IF i > Len(s) THEN 0
  ELSE IF s[i] = c THEN i
  ELSE FindChar(s, c, i + 1)

\* str.lstrip(c): every leading c is removed
RECURSIVE LStrip(_, _)
LStrip(s, c) ==
  IF s # << >> /\ Head(s) = c THEN LStrip(Tail(s), c) ELSE s

\* str.split(sep) for a one-character separator: empty pieces are kept
RECURSIVE Split(_, _)
Split(s, sep) ==
  LET j == FindChar(s, sep, 1) IN
  IF j = 0 THEN << s >>
  ELSE << SubSeq(s, 1, j - 1) >> \o Split(SubSeq(s, j + 1, Len(s)), sep)

\* str.replace(old, new): every non-overlapping occurrence, left to right
RECURSIVE Replace(_, _, _)
Replace(s, old, new) ==
  IF Len(s) < Len(old) \/ old = << >> THEN s
  ELSE IF SubSeq(s, 1, Len(old)) = old
       THEN new \o Replace(SubSeq(s, Len(old) + 1, Len(s)), old, new)
       ELSE << Head(s) >> \o Replace(Tail(s), old, new)

\* the digits of int(), and the characters str() writes for an int
Digits == << "0", "1", "2", "3", "4", "5", "6", "7", "8", "9" >>

DigitVal(c) == (CHOOSE i \in 1..Len(Digits) : Digits[i] = c) - 1

IsDigit(c) == \E i \in 1..Len(Digits) : Digits[i] = c

RECURSIVE ParseDigits(_, _)
ParseDigits(s, acc) ==
  IF s = << >> THEN acc
  ELSE ParseDigits(Tail(s), acc * 10 + DigitVal(Head(s)))

\* int(s) accepts s: a non-empty run of digits (the model's strings carry no
\* sign, blank or underscore)
IntParses(s) == s # << >> /\ \A i \in 1..Len(s) : IsDigit(s[i])

ParseInt(s) == ParseDigits(s, 0)

RECURSIVE IntToStr(_)
IntToStr(n) ==
  IF n < 10 THEN << Digits[n + 1] >>
  ELSE IntToStr(n \div 10) \o << Digits[(n % 10) + 1] >>

(***************************************************************************)
(* Values                                                                  *)
(***************************************************************************)

StrV(s) == [t |-> "str", s |-> s]

IntV(n) == [t |-> "int", n |-> n]

DictV(d) == [t |-> "dict", d |-> d]

IsStr(v) == v.t = "str"

IsDict(v) == v.t = "dict"

\* `key in data`
DictHas(d, key) == \E i \in 1..Len(d) : d[i].k = key

\* data[key]
DictGet(d, key) == d[CHOOSE i \in 1..Len(d) : d[i].k = key].v

\* data[key] = value on an existing key: the position of the key is kept
DictSet(d, key, value) ==
  [i \in 1..Len(d) |-> IF d[i].k = key THEN [k |-> key, v |-> value] ELSE d[i]]

\* repr(), as str() of a dict writes its keys and values
RECURSIVE Repr(_)
RECURSIVE ReprItems(_, _)
Repr(v) ==
  CASE v.t = "str" -> << "'" >> \o v.s \o << "'" >>
    [] v.t = "int" -> IntToStr(v.n)
    [] OTHER -> << "{" >> \o ReprItems(v.d, 1) \o << "}" >>

ReprItems(d, i) ==
  IF i > Len(d) THEN << >>
  ELSE (IF i > 1 THEN << ",", " " >> ELSE << >>)
       \o << "'" >> \o d[i].k \o << "'", ":", " " >> \o Repr(d[i].v)
       \o ReprItems(d, i + 1)

\* str(): a string is itself, anything else is its repr
Str(v) == IF v.t = "str" THEN v.s ELSE Repr(v)

(***************************************************************************)
(* hooks.py: the regular expressions and the registry                      *)
(***************************************************************************)

HOOK_PREFIX == "@"

\* the end of a match of PREFIXED_HOOK_EXPANSION_REGEX, @\{([^}]+)\}, that
\* starts at position i of s; 0 when there is no match at i
PrefixedExpansionEnd(s, i) ==
  IF i + 1 <= Len(s) /\ s[i] = "@" /\ s[i + 1] = "{"
  THEN LET j == FindChar(s, "}", i + 2) IN IF j >= i + 3 THEN j ELSE 0
  ELSE 0

\* re.finditer(PREFIXED_HOOK_EXPANSION_REGEX, s) from position i: the
\* non-overlapping matches left to right, each with group(0) and group(1)
RECURSIVE FindIter(_, _)
FindIter(s, i) ==
  IF i > Len(s) THEN << >>
  ELSE LET e == PrefixedExpansionEnd(s, i) IN
       IF e > 0
       THEN << [text |-> SubSeq(s, i, e), group |-> SubSeq(s, i + 2, e - 1)] >>
            \o FindIter(s, e + 1)
       ELSE FindIter(s, i + 1)

\* HOOK_EXPANSION_REGEX.match(ref), \{([^}]+)\} anchored at the start of ref:
\* the end of the match, 0 when there is none
ExpansionEnd(ref) ==
  IF ref # << >> /\ ref[1] = "{"
  THEN LET j == FindChar(ref, "}", 2) IN IF j >= 3 THEN j ELSE 0
  ELSE 0

\* names of hooks
HookImport == << "i", "m", "p", "o", "r", "t" >>

HookValue == << "v", "a", "l", "u", "e" >>

HookEnv == << "e", "n", "v" >>

\* the registry after hooks.py is imported: the three built-in hooks
BuiltinHandlers ==
  [n \in {HookImport, HookValue, HookEnv} |->
     CASE n = HookImport -> "import_hook"
       [] n = HookValue -> "value_hook"
       [] OTHER -> "env_hook"]

\* `hook in cls._handlers`
IsRegistered(reg, hook) == hook \in DOMAIN reg

\* cls._handlers[hook] = handler
StoreHandler(reg, hook, handler) ==
  [n \in (DOMAIN reg) \cup {hook} |-> IF n = hook THEN handler ELSE reg[n]]

\* register() that overwrites a registered name
RegisterResult_Overwrite(reg, hook, handler) ==
  [reg |-> StoreHandler(reg, hook, handler), err |-> "none"]

\* HookRegistry.register: the registry and the error it raises
RegisterResult(reg, hook, handler) ==
  IF IsRegistered(reg, hook)
  THEN [reg |-> reg, err |-> "DuplicateRegistration"]
  ELSE [reg |-> StoreHandler(reg, hook, handler), err |-> "none"]

\* HookRegistry.get_handler: the handler, or the error it raises
GetHandlerResult(reg, hook) ==
  IF ~IsRegistered(reg, hook)
  THEN [ok |-> FALSE, handler |-> "none", err |-> "UnregisteredHandler"]
  ELSE [ok |-> TRUE, handler |-> reg[hook], err |-> "none"]

\* clear() that resets the registry to the built-in hooks
ClearResult_KeepsBuiltins(reg) == BuiltinHandlers

\* HookRegistry.clear
ClearResult(reg) == << >>

(***************************************************************************)
(* context.py: ValidationContext                                           *)
(***************************************************************************)

\* the value of a missing attribute of the thread-local
NoData == [t |-> "none"]

\* the thread-local before any root_data: no depth and no data attribute
FreshContext == [hasDepth |-> FALSE, depth |-> 0, hasData |-> FALSE, data |-> NoData]

\* a root_data that installs no data
CtxEnter_NoRoot(c, data) ==
  [hasDepth |-> TRUE,
   depth |-> (IF c.hasDepth THEN c.depth ELSE 0) + 1,
   hasData |-> c.hasData,
   data |-> c.data]

\* a root_data that installs its data at every depth
CtxEnter_Reinstalls(c, data) ==
  [hasDepth |-> TRUE,
   depth |-> (IF c.hasDepth THEN c.depth ELSE 0) + 1,
   hasData |-> TRUE,
   data |-> data]

\* root_data up to the yield
CtxEnter(c, data) ==
  LET d == IF c.hasDepth THEN c.depth ELSE 0
      install == d = 0 /\ ~c.hasData
  IN [hasDepth |-> TRUE,
      depth |-> d + 1,
      hasData |-> c.hasData \/ install,
      data |-> IF install THEN data ELSE c.data]

\* a finally clause that deletes the data at every depth
CtxExit_AlwaysDrops(c) ==
  [hasDepth |-> TRUE, depth |-> c.depth - 1, hasData |-> FALSE, data |-> NoData]

\* a finally clause that never deletes the data
CtxExit_NeverDrops(c) ==
  [hasDepth |-> TRUE, depth |-> c.depth - 1, hasData |-> c.hasData, data |-> c.data]

\* root_data's finally clause
CtxExit(c) ==
  LET d == c.depth - 1
      drop == d = 0 /\ c.hasData
  IN [hasDepth |-> TRUE,
      depth |-> d,
      hasData |-> c.hasData /\ ~drop,
      data |-> IF drop THEN NoData ELSE c.data]

\* a root_data whose cleanup follows the yield without try/finally
CtxExitOn_NoFinally(c, failed) == IF failed THEN c ELSE CtxExit(c)

\* root_data's try/finally around the yield: the finally clause runs when
\* the body returns and when it raises
CtxExitOn(c, failed) == CtxExit(c)

\* get_root_data
GetRootData(c) == IF c.hasData THEN c.data ELSE NoData

\* `not data`: None and the empty dict are both falsy
Falsy(data) == data = NoData \/ (IsDict(data) /\ data.d = << >>)

\* a loop that stops at the value reached when a key cannot be followed
RECURSIVE WalkKeys_Lenient(_, _)
WalkKeys_Lenient(data, keys) ==
  IF keys = << >> \/ ~IsDict(data) \/ ~DictHas(data.d, Head(keys))
  THEN [ok |-> TRUE, val |-> data, err |-> "none"]
  ELSE WalkKeys_Lenient(DictGet(data.d, Head(keys)), Tail(keys))

\* the loop of get_nested_value over the keys of the path
RECURSIVE WalkKeys(_, _)
WalkKeys(data, keys) ==
  IF keys = << >> THEN [ok |-> TRUE, val |-> data, err |-> "none"]
  ELSE IF ~IsDict(data) THEN [ok |-> FALSE, val |-> NoData, err |-> "NotTraversable"]
  ELSE IF ~DictHas(data.d, Head(keys)) THEN [ok |-> FALSE, val |-> NoData, err |-> "KeyNotFound"]
  ELSE WalkKeys(DictGet(data.d, Head(keys)), Tail(keys))

\* get_nested_value against the root data `root`
GetNestedValue(root, path) ==
  IF Falsy(root) THEN [ok |-> FALSE, val |-> NoData, err |-> "NoContext"]
  ELSE WalkKeys(root, Split(path, "."))

\* the errors of get_nested_value: the spec's MissingPath
MissingPathErrors == {"NoContext", "NotTraversable", "KeyNotFound"}

(***************************************************************************)
(* Hook handlers: the built-in ones of hooks.py and those of the tests     *)
(***************************************************************************)

\* os.environ of the process: one variable, E
Environ == << [k |-> << "E" >>, v |-> StrV(<< "x" >>)] >>

\* import_hook: path.rsplit(".", 1) needs a dot to unpack into two names; no
\* module is importable in the model, so import_module raises ImportError
ImportHook(path) ==
  IF FindChar(path, ".", 1) = 0
  THEN [ok |-> FALSE, val |-> NoData, err |-> "UnpackError", lookups |-> << >>]
  ELSE [ok |-> FALSE, val |-> NoData, err |-> "UnresolvableImport", lookups |-> << >>]

\* value_hook: ctx.get_nested_value(path)
ValueHook(path, root) ==
  LET r == GetNestedValue(root, path) IN
  [ok |-> r.ok, val |-> r.val, err |-> r.err, lookups |-> << path >>]

\* env_hook: os.environ[name]
EnvHook(name) ==
  IF DictHas(Environ, name)
  THEN [ok |-> TRUE, val |-> DictGet(Environ, name), err |-> "none", lookups |-> << >>]
  ELSE [ok |-> FALSE, val |-> NoData, err |-> "MissingEnvironmentVariable", lookups |-> << >>]

\* multiply_hook of the tests: int(value) * 2
MultiplyHook(value) ==
  IF IntParses(value)
  THEN [ok |-> TRUE, val |-> IntV(ParseInt(value) * 2), err |-> "none", lookups |-> << >>]
  ELSE [ok |-> FALSE, val |-> NoData, err |-> "HandlerError", lookups |-> << >>]

\* first_hook and second_hook of the tests: return value
IdentityHook(value) ==
  [ok |-> TRUE, val |-> StrV(value), err |-> "none", lookups |-> << >>]

\* error_hook of the tests: raise ValueError
ErrorHook(value) ==
  [ok |-> FALSE, val |-> NoData, err |-> "HandlerError", lookups |-> << >>]

\* add_hook of the tests, over the field a: base = ctx.get_nested_value("a"),
\* then base + int(value).  int() raises ValueError on text that is no number,
\* and + raises TypeError when base is no number
AddHook(value, root) ==
  LET r == GetNestedValue(root, << "a" >>) IN
  IF ~r.ok THEN [ok |-> FALSE, val |-> NoData, err |-> r.err, lookups |-> << << "a" >> >>]
  ELSE IF ~IntParses(value)
  THEN [ok |-> FALSE, val |-> NoData, err |-> "HandlerError", lookups |-> << << "a" >> >>]
  ELSE IF r.val.t # "int"
  THEN [ok |-> FALSE, val |-> NoData, err |-> "HandlerTypeError", lookups |-> << << "a" >> >>]
  ELSE [ok |-> TRUE, val |-> IntV(r.val.n + ParseInt(value)), err |-> "none",
        lookups |-> << << "a" >> >>]

\* handler(value, ValidationContext)
ApplyHandler(handler, value, root) ==
  CASE handler = "import_hook" -> ImportHook(value)
    [] handler = "value_hook" -> ValueHook(value, root)
    [] handler = "env_hook" -> EnvHook(value)
    [] handler = "multiply_hook" -> MultiplyHook(value)
    [] handler = "add_hook" -> AddHook(value, root)
    [] handler = "error_hook" -> ErrorHook(value)
    [] OTHER -> IdentityHook(value)

(***************************************************************************)
(* model.py: ScriptModel                                                   *)
(***************************************************************************)

\* a parse that splits at the last ':' (rsplit) instead of the first
ParseReference_LastColon(reference) ==
  LET ref == LStrip(reference, HOOK_PREFIX)
      e == ExpansionEnd(ref)
      cs == {i \in 1..Len(ref) : ref[i] = ":"}
      c == IF cs = {} THEN 0 ELSE CHOOSE i \in cs : \A j \in cs : j <= i
  IN IF e > 0 THEN [hook |-> HookValue, value |-> SubSeq(ref, 2, e - 1)]
     ELSE IF c > 0 THEN [hook |-> SubSeq(ref, 1, c - 1), value |-> SubSeq(ref, c + 1, Len(ref))]
     ELSE [hook |-> ref, value |-> << >>]

\* _process_reference, the parse: the hook name and the raw argument
ParseReference(reference) ==
  LET ref == LStrip(reference, HOOK_PREFIX)
      e == ExpansionEnd(ref)
      c == FindChar(ref, ":", 1)
  IN IF e > 0 THEN [hook |-> HookValue, value |-> SubSeq(ref, 2, e - 1)]
     ELSE IF c > 0 THEN [hook |-> SubSeq(ref, 1, c - 1), value |-> SubSeq(ref, c + 1, Len(ref))]
     ELSE [hook |-> ref, value |-> << >>]

\* what `return handler(value, ValidationContext)` hands back: the outcome r
\* of the handler, with the call that was made
Returned(r, p, handler) ==
  [ok |-> r.ok, val |-> r.val, err |-> r.err,
   calls |-> << [hook |-> p.hook, handler |-> handler, value |-> p.value] >>,
   lookups |-> r.lookups]

\* a _process_reference that catches what the handler raises and hands the
\* reference back as text
CallHandler_Masked(p, reg, root) ==
  LET h == GetHandlerResult(reg, p.hook)
      r == ApplyHandler(h.handler, p.value, root)
  IN IF ~h.ok
     THEN [ok |-> FALSE, val |-> NoData, err |-> h.err, calls |-> << >>, lookups |-> << >>]
     ELSE [ok |-> TRUE, val |-> IF r.ok THEN r.val ELSE StrV(p.hook \o << ":" >> \o p.value),
           err |-> "none",
           calls |-> << [hook |-> p.hook, handler |-> h.handler, value |-> p.value] >>,
           lookups |-> r.lookups]

\* _process_reference after the parse: get_handler, then the handler's call
CallHandler(p, reg, root) ==
  LET h == GetHandlerResult(reg, p.hook) IN
  IF ~h.ok
  THEN [ok |-> FALSE, val |-> NoData, err |-> h.err, calls |-> << >>, lookups |-> << >>]
  ELSE Returned(ApplyHandler(h.handler, p.value, root), p, h.handler)

\* _process_reference: the handler's value or the error raised, with the
\* handler invoked and the context lookups it made
ProcessReference(reference, reg, root) ==
  CallHandler(ParseReference(reference), reg, root)

\* requires_resolution
RequiresResolution(field_value) ==
  /\ IsStr(field_value)
  /\ (Contains(field_value.s, << "@", "{" >>) \/ StartsWith(field_value.s, << "@" >>))

\* an interpolation that keeps the looked-up value and drops the text around it
InterpolateMatch_DropsText(processed, match, root) ==
  LET r == GetNestedValue(root, match.group) IN
  IF r.ok THEN Str(r.val) ELSE processed

\* the body of the interpolation loop for one match: the replacement when
\* the lookup succeeds, the text as it is when get_nested_value raises
InterpolateMatch(processed, match, root) ==
  LET r == GetNestedValue(root, match.group) IN
  IF r.ok THEN Replace(processed, match.text, Str(r.val)) ELSE processed

\* an interpolation that stops after the first match of finditer
Interpolate_FirstOnly(processed, matches, root) ==
  IF matches = << >> THEN processed
  ELSE InterpolateMatch(processed, Head(matches), root)

\* the interpolation loop over the matches of finditer
RECURSIVE Interpolate(_, _, _)
Interpolate(processed, matches, root) ==
  IF matches = << >> THEN processed
  ELSE Interpolate(InterpolateMatch(processed, Head(matches), root), Tail(matches), root)

\* the paths the interpolation loop looks up
MatchGroups(matches) == [i \in 1..Len(matches) |-> matches[i].group]

\* "the entire value is a single @reference": nothing was interpolated and
\* the value starts with @ but not with @{
IsWholeReference(processed, field_value) ==
  /\ processed = field_value
  /\ StartsWith(field_value, << "@" >>)
  /\ ~StartsWith(field_value, << "@", "{" >>)

\* a resolution that writes the handler's value as text
ResolveValue_Stringified(field_value, reg, root) ==
  LET matches == FindIter(field_value.s, 1)
      processed == Interpolate(field_value.s, matches, root)
  IN IF IsWholeReference(processed, field_value.s)
     THEN LET r == ProcessReference(field_value.s, reg, root) IN
          [ok |-> r.ok, val |-> IF r.ok THEN StrV(Str(r.val)) ELSE r.val, err |-> r.err,
           calls |-> r.calls, lookups |-> MatchGroups(matches) \o r.lookups]
     ELSE [ok |-> TRUE, val |-> StrV(processed), err |-> "none", calls |-> << >>,
           lookups |-> MatchGroups(matches)]

\* the outcome r of _process_reference, after the lookups of the
\* interpolation loop that ran before it
AfterInterpolation(r, groups) ==
  [ok |-> r.ok, val |-> r.val, err |-> r.err, calls |-> r.calls,
   lookups |-> groups \o r.lookups]

\* the resolution of one field value that requires it
ResolveValue(field_value, reg, root) ==
  LET matches == FindIter(field_value.s, 1)
      processed == Interpolate(field_value.s, matches, root)
  IN IF IsWholeReference(processed, field_value.s)
     THEN AfterInterpolation(ProcessReference(field_value.s, reg, root), MatchGroups(matches))
     ELSE [ok |-> TRUE, val |-> StrV(processed), err |-> "none", calls |-> << >>,
           lookups |-> MatchGroups(matches)]

\* a reference loop without the requires_resolution test, which writes
\* str(value) back for every declared field it does not resolve
RECURSIVE ReferenceLoop_NoGuard(_, _, _, _, _, _)
ReferenceLoop_NoGuard(acc, i, hints, reg, root, alias) ==
  IF i > Len(acc.v.d) THEN acc
  ELSE LET field == acc.v.d[i] IN
       IF field.k \notin hints
       THEN ReferenceLoop_NoGuard(acc, i + 1, hints, reg, root, alias)
       ELSE LET r == IF RequiresResolution(field.v)
                     THEN ResolveValue(field.v, reg, IF alias THEN acc.v ELSE root)
                     ELSE [ok |-> TRUE, val |-> StrV(Str(field.v)), err |-> "none",
                           calls |-> << >>, lookups |-> << >>]
            IN IF ~r.ok
               THEN [v |-> acc.v, err |-> r.err, calls |-> acc.calls \o r.calls,
                     lookups |-> acc.lookups \o r.lookups]
               ELSE ReferenceLoop_NoGuard(
                      [v |-> DictV(DictSet(acc.v.d, field.k, r.val)), err |-> "none",
                       calls |-> acc.calls \o r.calls, lookups |-> acc.lookups \o r.lookups],
                      i + 1, hints, reg, root, alias)

RECURSIVE ReferenceLoop(_, _, _, _, _, _)

\* `values[field_name] = ...` for the outcome r of the resolution of field i:
\* the error leaves the loop, the value is assigned and the loop goes on
AssignField(acc, i, r, hints, reg, root, alias) ==
  IF ~r.ok
  THEN [v |-> acc.v, err |-> r.err, calls |-> acc.calls \o r.calls,
        lookups |-> acc.lookups \o r.lookups]
  ELSE ReferenceLoop(
         [v |-> DictV(DictSet(acc.v.d, acc.v.d[i].k, r.val)), err |-> "none",
          calls |-> acc.calls \o r.calls, lookups |-> acc.lookups \o r.lookups],
         i + 1, hints, reg, root, alias)

\* the reference loop of validate_script_fields from field i on.  acc.v is
\* the dict, assigned in place; when the root data is the dict itself (alias)
\* every lookup reads the fields already assigned
ReferenceLoop(acc, i, hints, reg, root, alias) ==
  IF i > Len(acc.v.d) THEN acc
  ELSE LET field == acc.v.d[i] IN
       IF field.k \notin hints \/ ~RequiresResolution(field.v)
       THEN ReferenceLoop(acc, i + 1, hints, reg, root, alias)
       ELSE AssignField(acc, i, ResolveValue(field.v, reg, IF alias THEN acc.v ELSE root),
                        hints, reg, root, alias)

\* validate_script_fields(v, hints)
ValidateScriptFields(v, hints, reg, root, alias) ==
  IF ~IsDict(v) THEN [v |-> v, err |-> "none", calls |-> << >>, lookups |-> << >>]
  ELSE ReferenceLoop([v |-> v, err |-> "none", calls |-> << >>, lookups |-> << >>],
                     1, hints, reg, root, alias)

(***************************************************************************)
(* script.py: the session controller _Script and the script that calls it  *)
(***************************************************************************)

\* the names the calling script may bind between init() and ready()
Names == {"device", "epochs", "_seed"}

\* a name that is not a key of the caller's globals
Unbound == "<unbound>"

\* the value the script's own assignment gives each name (the code tier)
CodeValue(name) ==
  CASE name = "device" -> "cpu"
    [] name = "epochs" -> "10"
    [] OTHER -> "7"

\* the command-line flag of a name, and the value the command line gives it
Flag(name) ==
  CASE name = "device" -> "--device"
    [] name = "epochs" -> "--epochs"
    [] OTHER -> "--seed"

CliValue(name) ==
  CASE name = "device" -> "tpu"
    [] name = "epochs" -> "30"
    [] OTHER -> "9"

\* the configuration files on disk: the assignments each one makes
ConfigFiles == {"a.py", "b.py"}

FileDeclares(file) ==
  CASE file = "a.py" -> {"device"}
    [] file = "b.py" -> {"device", "epochs"}
    [] OTHER -> {}

FileValue(name) ==
  CASE name = "device" -> "cuda"
    [] name = "epochs" -> "20"
    [] OTHER -> "8"

\* the command lines the process may have been started with
CliPart(names) ==
  (IF "device" \in names THEN << Flag("device"), CliValue("device") >> ELSE << >>)
  \o (IF "epochs" \in names THEN << Flag("epochs"), CliValue("epochs") >> ELSE << >>)

ArgvSet ==
  { << "prog" >> \o c \o s \o CliPart(names) :
      c \in {<< >>} \cup { << "-c", f >> : f \in ConfigFiles },
      s \in { << >>, << "-s", "out.py" >> },
      names \in SUBSET {"device", "epochs"} }
  \cup { << "prog", "-c" >>, << "prog", "-s" >> }

\* `token in sys.argv` and sys.argv.index(token)
InArgv(argv, token) == \E i \in 1..Len(argv) : argv[i] = token

ArgvIndex(argv, token) == CHOOSE i \in 1..Len(argv) : argv[i] = token /\ \A j \in 1..(i - 1) : argv[j] # token

\* the __doc__ of the calling module
ModuleDoc == "module doc"

\* the number of statements of the calling script
MaxLine == 5

\* the number of init() and ready() calls a run makes
MaxCalls == 4

VARIABLES
  initialized,     \* _Script.initialized
  start,           \* _Script.start: the line of the init() call, 0 for None
  init_globals,    \* _Script.init_globals
  description,     \* _Script.description
  save_path,       \* _Script.save_path
  caller_globals,  \* the globals of the calling script: name -> value
  sys_argv,        \* sys.argv
  lineno,          \* the line the calling script is at
  log              \* the init() and ready() calls made, each with its outcome

scriptVars == << initialized, start, init_globals, description, save_path,
                 caller_globals, sys_argv, lineno, log >>

\* the dataclass defaults of _Script, and a script about to run its first line
ScriptInitState ==
  /\ initialized = FALSE
  /\ start = 0
  /\ init_globals = {}
  /\ description = "None"
  /\ save_path = "None"
  /\ caller_globals = [n \in Names |-> Unbound]
  /\ sys_argv \in ArgvSet
  /\ lineno = 1
  /\ log = << >>

\* the attributes of the controller: the fields and methods of _Script
ScriptAttributes ==
  {"description", "init_globals", "initialized", "file", "save_path", "lines", "start",
   "end", "init", "hook", "ready", "_save"}

\* set(context.keys())
GlobalKeys(globals) == {n \in Names : globals[n] # Unbound}

\* a scanner that takes no name for private
IsPrivate_Never(name) == FALSE

\* name.startswith("_")
IsPrivate(name) == name = "_seed"

\* a statement `name = value` of the calling script
BodyAssign(name) ==
  /\ lineno < MaxLine
  /\ caller_globals' = [caller_globals EXCEPT ![name] = CodeValue(name)]
  /\ lineno' = lineno + 1
  /\ UNCHANGED << initialized, start, init_globals, description, save_path, sys_argv, log >>

\* init() without its guard
InitRejects_Never == FALSE

\* `if self.initialized: raise RuntimeError` of init()
InitRejects == initialized

\* _Script.init(description), called at line lineno
ScriptInit(desc) ==
  /\ lineno < MaxLine
  /\ Len(log) < MaxCalls
  /\ lineno' = lineno + 1
  /\ IF InitRejects
     THEN /\ log' = Append(log, [op |-> "init", err |-> "ReentrancyError", line |-> lineno])
          /\ UNCHANGED << initialized, start, init_globals, description >>
     ELSE /\ description' = (IF desc # "None" THEN desc ELSE ModuleDoc)
          /\ init_globals' = GlobalKeys(caller_globals)
          /\ initialized' = TRUE
          /\ start' = lineno
          /\ log' = Append(log, [op |-> "init", err |-> "none", line |-> lineno])
  /\ UNCHANGED << save_path, caller_globals, sys_argv >>

\* ready() without its guard
ReadyRejects_Never == FALSE

\* `if not self.initialized: raise RuntimeError` of ready()
ReadyRejects == ~initialized

\* new_vars of ready()
NewVars(globals, before) == {n \in GlobalKeys(globals) \ before : ~IsPrivate(n)}

\* the error ready() raises once it is past its guard.  sys.argv[index + 1]
\* raises IndexError when -c or -s is the last argument; otherwise the name
\* MainArgs is not defined in script.py, so tyro.cli(MainArgs, ...) raises
\* NameError, and the finally clause, delattr(module, "Args") of an attribute
\* that was never set, replaces it by AttributeError
ReadyError(argv) ==
  IF InArgv(argv, "-c") /\ ArgvIndex(argv, "-c") = Len(argv) THEN "IndexError"
  ELSE IF InArgv(argv, "-s") /\ ArgvIndex(argv, "-s") = Len(argv) THEN "IndexError"
  ELSE "AttributeError"

\* self.save_path after ready(): assigned when -s is given with a value and
\* the -c branch before it did not raise
ReadySavePath(argv, old) ==
  IF InArgv(argv, "-c") /\ ArgvIndex(argv, "-c") = Len(argv) THEN old
  ELSE IF InArgv(argv, "-s") /\ ArgvIndex(argv, "-s") < Len(argv)
       THEN argv[ArgvIndex(argv, "-s") + 1]
       ELSE old

\* the caller's globals after ready(): exec() of the configuration file binds
\* its names in a scratch namespace and returns None, and the write-back
\* (caller_globals.update) is commented out, so nothing is written
ReadyGlobals(globals, argv) == globals

\* _Script.ready(), called at line lineno
ScriptReady ==
  /\ lineno < MaxLine
  /\ Len(log) < MaxCalls
  /\ lineno' = lineno + 1
  /\ IF ReadyRejects
     THEN /\ log' = Append(log, [op |-> "ready", err |-> "NotInitialized", line |-> lineno])
          /\ UNCHANGED << save_path, caller_globals >>
     ELSE /\ save_path' = ReadySavePath(sys_argv, save_path)
          /\ caller_globals' = ReadyGlobals(caller_globals, sys_argv)
          /\ log' = Append(log, [op |-> "ready", err |-> ReadyError(sys_argv), line |-> lineno])
  /\ UNCHANGED << initialized, start, init_globals, description, sys_argv >>

(***************************************************************************)
(* docstring.py and parsing.py: the scanner of a source slice              *)
(*                                                                         *)
(* A slice is a sequence of physical lines, one statement per line:        *)
(*   assign     name = value            [# comment]                        *)
(*   annassign  name: type = value      [# comment]                        *)
(*   string     'text'                  [# comment]                        *)
(*   nested     if cond: name = value                                      *)
(*   attr       cfg.name = value                                           *)
(*   comment    # comment                                                  *)
(*   blank                                                                 *)
(*   bad        a line ast.parse rejects                                   *)
(***************************************************************************)

SrcLine(kind, name, comment, text) ==
  [kind |-> kind, name |-> name, comment |-> comment, text |-> text]

\* the line ends a logical line: the tokenizer emits NEWLINE after it, and
\* NL after a blank line or a line that holds only a comment
IsStatement(l) == l.kind \in {"assign", "annassign", "string", "nested", "attr"}

\* str.strip() of blanks
RECURSIVE RStrip(_)
RStrip(s) == IF s # << >> /\ s[Len(s)] = " " THEN RStrip(SubSeq(s, 1, Len(s) - 1)) ELSE s

Strip(s) == RStrip(LStrip(s, " "))

\* ast.literal_eval of a string token: the text between the quotes
LiteralEval(tok) == SubSeq(tok, 2, Len(tok) - 1)

\* the logical line the tokens of physical line i belong to
LogicalLine(src, i) == 1 + Cardinality({j \in 1..(i - 1) : IsStatement(src[j])})

\* the NAME token a statement starts with
FirstName(l) ==
  CASE l.kind \in {"assign", "annassign"} -> l.name
    [] l.kind = "nested" -> "if"
    [] l.kind = "attr" -> "cfg"
    [] OTHER -> ""

\* _ScriptTokenization.make, var_data_from_name[name].actual_line: the first
\* line whose logical line starts with the NAME token `name`, comments set
\* aside; 0 when the name is not recorded.  The ENCODING token that
\* tokenize.tokenize emits first is kept as the first token of logical line
\* 1, so no name of logical line 1 is the first token of its line
VarLine(src, name) ==
  LET found == {i \in 1..Len(src) :
                  IsStatement(src[i]) /\ FirstName(src[i]) = name /\ LogicalLine(src, i) > 1}
  IN IF found = {} THEN 0 ELSE CHOOSE i \in found : \A j \in found : i <= j

\* the text of a comment token: `#:` is cut off, else `#`
CommentText(comment) ==
  IF StartsWith(comment, << "#", ":" >>)
  THEN Strip(SubSeq(comment, 3, Len(comment)))
  ELSE Strip(SubSeq(comment, 2, Len(comment)))

\* tyro's remove_single_line_breaks of "\n".join(lines): the lines, which are
\* single words here, separated by blanks
RECURSIVE JoinLines(_)
JoinLines(lines) ==
  IF lines = << >> THEN << >>
  ELSE IF Len(lines) = 1 THEN lines[1]
  ELSE lines[1] \o << " " >> \o JoinLines(Tail(lines))

\* get_var_docstring, the comment on the line of the field: `#!` gives no
\* description, `#:` and `#` give the text after the marker
TrailingDoc(l) ==
  IF StartsWith(l.comment, << "#", "!" >>) THEN NoData
  ELSE StrV(JoinLines(<< CommentText(l.comment) >>))

\* the statement that follows line i, 0 when there is none
NextStatement(src, i) ==
  LET later == {j \in (i + 1)..Len(src) : IsStatement(src[j])}
  IN IF later = {} THEN 0 ELSE CHOOSE j \in later : \A k \in later : j <= k

\* the next logical line is a single STRING token: the next statement is a
\* lone string literal, with no comment on its line or between the two
HasNextLineDoc(src, i) ==
  LET j == NextStatement(src, i) IN
  /\ j # 0
  /\ src[j].kind = "string"
  /\ src[j].comment = << >>
  /\ \A k \in (i + 1)..(j - 1) : src[k].kind # "comment"

NextLineDoc(src, i) ==
  StrV(JoinLines(<< Strip(LiteralEval(src[NextStatement(src, i)].text)) >>))

\* the tokens of actual line k are one COMMENT token.  Actual line 1 also
\* holds the ENCODING token, so a comment there is never a single token
IsSingleComment(src, k) == k > 1 /\ src[k].kind = "comment"

\* the tokens of actual line k are none
IsEmptyLine(src, k) == k > 1 /\ src[k].kind = "blank"

\* the loop over the lines above the field, from line k upwards: the
\* comments collected (topmost first), whether the first line looked at was
\* a comment, and whether a `#:` comment was collected
RECURSIVE CommentsAbove(_, _, _)
CommentsAbove(src, k, acc) ==
  IF k < 1 \/ IsEmptyLine(src, k) THEN acc
  ELSE IF IsSingleComment(src, k)
  THEN CommentsAbove(src, k - 1,
         [acc EXCEPT !.comments = << CommentText(src[k].comment) >> \o @,
                     !.sphinx = @ \/ StartsWith(src[k].comment, << "#", ":" >>)])
  ELSE IF acc.comments # << >> THEN acc
  ELSE CommentsAbove(src, k - 1, [acc EXCEPT !.directly = FALSE])

AboveDoc(src, i) ==
  LET r == CommentsAbove(src, i - 1, [comments |-> << >>, directly |-> TRUE, sphinx |-> FALSE])
  IN IF r.comments # << >> /\ ~(r.sphinx /\ ~r.directly)
     THEN StrV(JoinLines(r.comments))
     ELSE NoData

\* get_var_docstring(source, var_name, markers) without the marker
\* HelptextFromCommentsOff: None (NoData) or the description
GetVarDocstring(src, name) ==
  LET i == VarLine(src, name) IN
  IF i = 0 THEN NoData
  ELSE IF src[i].comment # << >> THEN TrailingDoc(src[i])
  ELSE IF HasNextLineDoc(src, i) THEN NextLineDoc(src, i)
  ELSE AboveDoc(src, i)

\* a scanner that skips the lines it cannot parse
ParseFails_Never(src) == FALSE

\* ast.parse raises SyntaxError
ParseFails(src) == \E i \in 1..Len(src) : src[i].kind = "bad"

\* a scanner that collects the targets of nested assignments too
RECURSIVE Candidates_Nested(_)
Candidates_Nested(src) ==
  IF src = << >> THEN << >>
  ELSE (IF Head(src).kind \in {"assign", "annassign", "nested"} THEN << Head(src).name >>
        ELSE << >>)
       \o Candidates_Nested(Tail(src))

\* the candidates of get_script_vars: the targets of the Assign and AnnAssign
\* nodes of parsed.body, in order
RECURSIVE Candidates(_)
Candidates(src) ==
  IF src = << >> THEN << >>
  ELSE (IF Head(src).kind \in {"assign", "annassign"} THEN << Head(src).name >> ELSE << >>)
       \o Candidates(Tail(src))

\* Variable(name, type_hint, value, docstring) of one candidate
MakeVariable(src, name, context, annotations) ==
  [name |-> name,
   hint |-> IF name \in annotations THEN "annotation"
            ELSE IF context[name] # Unbound THEN "type(value)" ELSE "Any",
   value |-> IF context[name] # Unbound THEN context[name] ELSE "None",
   docstring |-> GetVarDocstring(src, name)]

\* the loop over the candidates
RECURSIVE ProcessCandidates(_, _, _, _)
ProcessCandidates(src, names, context, annotations) ==
  IF names = << >> THEN << >>
  ELSE (IF IsPrivate(Head(names)) THEN << >>
        ELSE << MakeVariable(src, Head(names), context, annotations) >>)
       \o ProcessCandidates(src, Tail(names), context, annotations)

\* get_script_vars(filename, code, context): the error raised and the list
\* of Variables returned
GetScriptVars(filename, src, context, annotations) ==
  IF ParseFails(src) THEN [err |-> "RuntimeError", vars |-> << >>]
  ELSE [err |-> "none", vars |-> ProcessCandidates(src, Candidates(src), context, annotations)]

\* comments and the string literal of the slices
TrailPlain == << "#", " ", "t" >>

TrailBang == << "#", "!", " ", "t" >>

TrailColon == << "#", ":", " ", "t" >>

AbovePlain == << "#", " ", "c" >>

AboveColon == << "#", ":", " ", "c" >>

DocLiteral == << "'", "d", "'" >>

\* the lines of slices that document the field device
DocShapes ==
  { SrcLine("assign", "device", << >>, << >>),
    SrcLine("assign", "device", TrailPlain, << >>),
    SrcLine("assign", "device", TrailBang, << >>),
    SrcLine("assign", "device", TrailColon, << >>),
    SrcLine("annassign", "epochs", << >>, << >>),
    SrcLine("string", "", << >>, DocLiteral),
    SrcLine("comment", "", AbovePlain, << >>),
    SrcLine("comment", "", AboveColon, << >>),
    SrcLine("blank", "", << >>, << >>) }

\* the lines of slices that declare names in every way
ScanShapes ==
  { SrcLine("assign", "device", << >>, << >>),
    SrcLine("annassign", "epochs", << >>, << >>),
    SrcLine("assign", "_seed", TrailPlain, << >>),
    SrcLine("nested", "epochs", << >>, << >>),
    SrcLine("attr", "device", << >>, << >>),
    SrcLine("bad", "", << >>, << >>) }

\* the number of lines of a slice
MaxSourceLines == 4

\* the files a slice comes from: the calling script and a configuration file
Filenames == {"script.py", "a.py"}

\* the live namespace after the slice ran: every name it assigns is bound
NamespaceOf(src) ==
  [n \in Names |->
     IF \E i \in 1..Len(src) :
          src[i].kind \in {"assign", "annassign", "nested"} /\ src[i].name = n
     THEN CodeValue(n) ELSE Unbound]

\* the live namespace of a script that rebound its configuration names after
\* the slice assigned them: the value bound is not the literal the slice wrote
ReboundNamespaceOf(src) ==
  [n \in Names |->
     IF NamespaceOf(src)[n] = Unbound \/ IsPrivate(n) THEN NamespaceOf(src)[n] ELSE CliValue(n)]

\* __annotations__ of the namespace: the names the slice annotates
AnnotationsOf(src) ==
  {n \in Names : \E i \in 1..Len(src) : src[i].kind = "annassign" /\ src[i].name = n}

VARIABLES
  source,          \* the source slice handed to get_script_vars
  scanned          \* the last call of get_script_vars and its outcome

scanVars == << source, scanned >>

\* get_script_vars was not called
NotScanned == [op |-> "none", filename |-> "", err |-> "none", vars |-> << >>]

ScanIdle ==
  /\ source = << >>
  /\ scanned = NotScanned

\* a call get_script_vars(filename, source, globals)
ScanSlice(filename) ==
  LET r == GetScriptVars(filename, source, caller_globals, AnnotationsOf(source)) IN
  /\ scanned' = [op |-> "get_script_vars", filename |-> filename, err |-> r.err, vars |-> r.vars]
  /\ UNCHANGED source

(***************************************************************************)
(* parsing.py: make_fields_from_vars                                       *)
(***************************************************************************)

\* Ellipsis, the value of a declaration that has no default
Ellipsis == "..."

\* an assignment that moves an overridden key to the end
DictAssign_MovesLast(d, key, value) ==
  SelectSeq(d, LAMBDA e : e.k # key) \o << [k |-> key, v |-> value] >>

\* fields[key] = value: a new key goes last, a key already there keeps its
\* position and takes the value
DictAssign(d, key, value) ==
  IF DictHas(d, key) THEN DictSet(d, key, value) ELSE Append(d, [k |-> key, v |-> value])

\* the field of one Variable: (var.hint, Field(default, description)); the
\* first argument of Field is the default, so Field(...) is Field(default=...)
MakeField(var) ==
  IF var.value = Ellipsis
  THEN [hint |-> var.hint, default |-> Ellipsis, description |-> var.docstring]
  ELSE [hint |-> var.hint, default |-> var.value, description |-> var.docstring]

\* the loop of make_fields_from_vars
RECURSIVE FieldsLoop(_, _)
FieldsLoop(acc, variables_) ==
  IF variables_ = << >> THEN acc
  ELSE FieldsLoop(DictAssign(acc, Head(variables_).name, MakeField(Head(variables_))),
                  Tail(variables_))

\* make_fields_from_vars(variables)
MakeFieldsFromVars(variables_) == FieldsLoop(<< >>, variables_)

\* the Variables the tiers declare: two names, each with a type, a default or
\* none, and no description
TierVariables ==
  {[name |-> n, hint |-> h, value |-> v, docstring |-> NoData] :
     n \in {"device", "epochs"}, h \in {"str", "int"}, v \in {"cpu", "tpu", Ellipsis}}

\* the number of Variables of the tiers together
MaxVariables == 3

VARIABLES
  variables,       \* the Variables handed to make_fields_from_vars, tier after tier
  fields           \* the dict make_fields_from_vars returned

fieldVars == << variables, fields >>

\* make_fields_from_vars was not called
NotBuilt == [built |-> FALSE, d |-> << >>]

FieldsIdle ==
  /\ variables = << >>
  /\ fields = NotBuilt

\* a call make_fields_from_vars(variables)
MakeFields ==
  /\ ~fields.built
  /\ fields' = [built |-> TRUE, d |-> MakeFieldsFromVars(variables)]
  /\ UNCHANGED variables

(***************************************************************************)
(* capture.py: CodeCapture._parse_with_block                               *)
(*                                                                         *)
(* A file is the sequence of its lines as linecache holds them, every line *)
(* ending with a newline.                                                  *)
(***************************************************************************)

Newline == "\n"

\* the characters str.lstrip() and str.strip() remove
Whitespace == {" ", Newline}

\* str.lstrip()
RECURSIVE LStripWs(_)
LStripWs(s) == IF s # << >> /\ Head(s) \in Whitespace THEN LStripWs(Tail(s)) ELSE s

\* str.strip()
RECURSIVE RStripWs(_)
RStripWs(s) ==
  IF s # << >> /\ s[Len(s)] \in Whitespace THEN RStripWs(SubSeq(s, 1, Len(s) - 1)) ELSE s

StripWs(s) == RStripWs(LStripWs(s))

\* linecache.getline(filename, n): the line, or "" when the file has no line n
GetLine(file, n) == IF n \in 1..Len(file) THEN file[n] ELSE << >>

\* next_line[indent:]
SliceFrom(s, n) == IF n >= Len(s) THEN << >> ELSE SubSeq(s, n + 1, Len(s))

\* "".join(lines)
RECURSIVE JoinAll(_)
JoinAll(q) == IF q = << >> THEN << >> ELSE Head(q) \o JoinAll(Tail(q))

\* the lines of a file: a statement indented by two or by four, a statement
\* that is not indented, an empty line, a line of spaces
LineShapes ==
  { << " ", " ", "x", Newline >>,
    << " ", " ", " ", " ", "x", Newline >>,
    << "x", Newline >>,
    << Newline >>,
    << " ", " ", Newline >> }

\* the number of lines of a file
MaxFileLines == 3

VARIABLES
  cached,          \* the lines of filename in linecache
  line,            \* the line of the section's opening statement
  offset,          \* i
  indent,          \* indent
  block,           \* lines
  padding,         \* the parity of the reads made past the end of the file
  pc,              \* where capture() is: "idle", "loop", "returned", "captured"
  code             \* CodeCapture.code

captureVars == << cached, line, offset, indent, block, padding, pc, code >>

\* capture() was not called
CaptureIdle ==
  /\ cached = << >>
  /\ line = 0
  /\ offset = 0
  /\ indent = 0
  /\ block = << >>
  /\ padding = 0
  /\ pc = "idle"
  /\ code = << >>

\* next_line and next_line_indent of the iteration
NextLine == GetLine(cached, line + offset)

NextLineIndent == Len(NextLine) - Len(LStripWs(NextLine))

\* the break test, which the if/elif reaches only when indent is not 0
Breaks ==
  /\ indent # 0
  /\ \/ NextLineIndent < indent /\ Len(StripWs(NextLine)) > 0
     \/ NextLine = << >>

\* indent after the `if indent == 0` branch
IndentNow == IF indent = 0 THEN NextLineIndent ELSE indent

\* the read is past the end of the file
PastEnd == line + offset > Len(cached)

\* an iteration of the while loop that does not break: the line is appended
\* and i incremented.  getline returns "" at every position past the end of
\* the file, so an iteration there differs from the one before it only in i
\* and in the number of "" appended; the model keeps i at the first such
\* position and of the "" appended there only their parity
ParseIterate ==
  /\ pc = "loop"
  /\ ~Breaks
  /\ indent' = IndentNow
  /\ block' = IF PastEnd THEN block
              ELSE Append(block, IF NextLine = << Newline >> THEN NextLine
                                 ELSE SliceFrom(NextLine, IndentNow))
  /\ padding' = IF PastEnd THEN 1 - padding ELSE padding
  /\ offset' = IF PastEnd THEN offset ELSE offset + 1
  /\ UNCHANGED << cached, line, pc, code >>

\* the iteration that breaks: _parse_with_block returns lines
ParseReturn ==
  /\ pc = "loop"
  /\ Breaks
  /\ pc' = "returned"
  /\ UNCHANGED << cached, line, offset, indent, block, padding, code >>

\* capture(), after _parse_with_block returned: self.code = "".join(lines)
CaptureJoin ==
  /\ pc = "returned"
  /\ code' = JoinAll(block)
  /\ pc' = "captured"
  /\ UNCHANGED << cached, line, offset, indent, block, padding >>

(***************************************************************************)
(* context.py: threads entering and leaving root_data scopes               *)
(***************************************************************************)

\* the threads of the process
Threads == {"t1", "t2"}

\* a _context that is a plain object shared by the threads
Slot_Shared(t) == "t1"

\* _context = local(): every thread reads and writes attributes of its own
Slot(t) == t

\* a key of one character, as a string of the model
KeyA == << "a" >>

\* the dicts the scopes are entered with
RootValues ==
  { DictV(<< [k |-> KeyA, v |-> StrV(<< "x" >>)] >>),
    DictV(<< [k |-> KeyA, v |-> DictV(<< [k |-> << "b" >>, v |-> StrV(<< "x" >>)] >>)] >>),
    DictV(<< >>) }

\* the paths the threads look up: a, y, a.b and a.y
Paths == {KeyA, << "y" >>, << "a", ".", "b" >>, << "a", ".", "y" >>}

\* the nesting depth of the root_data scopes of one thread
MaxDepth == 3

VARIABLES
  tl,              \* the attributes of _context, per thread
  scopes,          \* per thread, the root_data scopes it is inside of, outermost first
  got              \* the last call made on ValidationContext and what it returned

ctxVars == << tl, scopes, got >>

\* no call was made
NoCall ==
  [thread |-> "none", op |-> "none", path |-> << >>, ok |-> TRUE, val |-> NoData, err |-> "none"]

\* no thread has used the context
CtxIdle ==
  /\ tl = [t \in Threads |-> FreshContext]
  /\ scopes = [t \in Threads |-> << >>]
  /\ got = NoCall

\* thread t executes `with ValidationContext.root_data(data):` up to the body
EnterScope(t, data) ==
  /\ Len(scopes[t]) < MaxDepth
  /\ tl' = [tl EXCEPT ![Slot(t)] = CtxEnter(tl[Slot(t)], data)]
  /\ scopes' = [scopes EXCEPT ![t] = Append(@, [data |-> data, before |-> tl[Slot(t)].depth])]
  /\ got' = [NoCall EXCEPT !.thread = t, !.op = "enter"]

\* thread t leaves its innermost scope: the body returned, or it raised
ExitScope(t, failed) ==
  /\ scopes[t] # << >>
  /\ tl' = [tl EXCEPT ![Slot(t)] = CtxExitOn(tl[Slot(t)], failed)]
  /\ scopes' = [scopes EXCEPT ![t] = SubSeq(@, 1, Len(@) - 1)]
  /\ got' = [NoCall EXCEPT !.thread = t, !.op = IF failed THEN "fail" ELSE "exit",
                           !.val = scopes[t][Len(scopes[t])].data]

\* thread t calls get_root_data()
CallGetRootData(t) ==
  /\ got' = [NoCall EXCEPT !.thread = t, !.op = "get_root_data",
                           !.val = GetRootData(tl[Slot(t)])]
  /\ UNCHANGED << tl, scopes >>

\* thread t calls get_nested_value(path)
CallGetNestedValue(t, path) ==
  LET r == GetNestedValue(GetRootData(tl[Slot(t)]), path) IN
  /\ got' = [thread |-> t, op |-> "get_nested_value", path |-> path,
             ok |-> r.ok, val |-> r.val, err |-> r.err]
  /\ UNCHANGED << tl, scopes >>

VARIABLES
  handlers,        \* HookRegistry._handlers
  ctx,             \* ValidationContext._context of the thread
  obj,             \* the dict handed to model_validate, assigned in place
  input,           \* obj as it was handed to the first pass
  out,             \* the outcome of the last registry or model call
  passes           \* the resolution passes made over obj

hookVars == << handlers, ctx, obj, input, out, passes >>

vars == << scriptVars, hookVars, ctxVars, scanVars, fieldVars, captureVars >>

\* the outcome of no call
NoOut == [op |-> "none", err |-> "none", calls |-> << >>, lookups |-> << >>,
          hook |-> << >>, handler |-> "none"]

\* the state of hooks.py, context.py and model.py when the controller runs
HookIdle ==
  /\ handlers = BuiltinHandlers
  /\ ctx = FreshContext
  /\ obj = DictV(<< >>)
  /\ input = DictV(<< >>)
  /\ out = NoOut
  /\ passes = 0

\* the controller while only the hooks are exercised: nothing was called
ScriptIdle ==
  /\ initialized = FALSE
  /\ start = 0
  /\ init_globals = {}
  /\ description = "None"
  /\ save_path = "None"
  /\ caller_globals = [n \in Names |-> Unbound]
  /\ sys_argv = << "prog" >>
  /\ lineno = 1
  /\ log = << >>

\* a one-character key or hook name
K(c) == << c >>

\* the hook names the scripts register, and the handlers they bind to them
HookNames == {K("h"), K("n"), HookValue}

Handlers == {"multiply_hook", "first_hook", "second_hook", "error_hook"}

\* HookRegistry.register(hook, handler)
Register(hook, handler) ==
  LET r == RegisterResult(handlers, hook, handler) IN
  /\ handlers' = r.reg
  /\ out' = [NoOut EXCEPT !.op = "register", !.err = r.err, !.hook = hook, !.handler = handler]
  /\ UNCHANGED << ctx, obj, input, passes >>

\* HookRegistry.get_handler(hook)
GetHandler(hook) ==
  LET r == GetHandlerResult(handlers, hook) IN
  /\ out' = [NoOut EXCEPT !.op = "get_handler", !.err = r.err, !.hook = hook, !.handler = r.handler]
  /\ UNCHANGED << handlers, ctx, obj, input, passes >>

\* HookRegistry.clear()
Clear ==
  /\ handlers' = ClearResult(handlers)
  /\ out' = [NoOut EXCEPT !.op = "clear"]
  /\ UNCHANGED << ctx, obj, input, passes >>

\* the declared fields of the model class: get_type_hints(cls)
Hints == {K("a"), K("b"), K("f"), K("s")}

\* model_validate with the outcome r of the validator chain: the validated
\* values, or the error that leaves model_validate
Validated(r) ==
  /\ obj' = r.v
  /\ out' = [NoOut EXCEPT !.op = "model_validate", !.err = r.err,
                          !.calls = r.calls, !.lookups = r.lookups]

\* ScriptModel.model_validate(o) of a dict o: root_data(o) is entered, the
\* validator chain runs validate_script_fields on o itself, the context is
\* left.  When root_data installed o as the root, the root data and the dict
\* being assigned are one object
ModelValidate(o) ==
  LET c == CtxEnter(ctx, o)
      alias == ~ctx.hasData /\ GetRootData(c) = o
  IN /\ Validated(ValidateScriptFields(o, Hints, handlers, GetRootData(c), alias))
     /\ ctx' = CtxExit(c)
     /\ UNCHANGED handlers

(***************************************************************************)
(* Inputs of the resolver                                                  *)
(***************************************************************************)

\* the nested data {b: {c: "x"}}
Nested == DictV(<< [k |-> K("b"), v |-> DictV(<< [k |-> K("c"), v |-> StrV(K("x"))] >>)] >>)

\* values of the field a: a string, an int, nested data
AValues == {StrV(K("x")), IntV(21), Nested}

\* pieces of text the values of the field f are composed of
Fragments ==
  { << "@" >>,
    << "@", "h" >>,
    << "@", "n" >>,
    << ":" >>,
    << "2", "1" >>,
    << "@", "{", "a", "}" >>,
    << "@", "{", "a", ".", "b", ".", "c", "}" >>,
    << "@", "{", "a", ".", "y", "}" >> }

\* the number of fragments in a value of f
MaxFragments == 3

\* the text a sequence of fragments spells
RECURSIVE Flatten(_)
Flatten(q) == IF q = << >> THEN << >> ELSE Head(q) \o Flatten(Tail(q))

\* the texts of at most n fragments
Compose(n) == UNION {{Flatten(q) : q \in [1..m -> Fragments]} : m \in 0..n}

FValues == {StrV(s) : s \in Compose(MaxFragments)}

\* the field a referring to the field b: a = "@{b}", b = "x"
RefToB == StrV(<< "@", "{", "b", "}" >>)

\* the dicts handed to model_validate: the fields a and f in either order,
\* f with a field g that is not declared, and f before a chain a -> b
Family(n, a, f) ==
  CASE n = 1 -> DictV(<< [k |-> K("a"), v |-> a], [k |-> K("f"), v |-> f] >>)
    [] n = 2 -> DictV(<< [k |-> K("f"), v |-> f], [k |-> K("a"), v |-> a] >>)
    [] n = 3 -> DictV(<< [k |-> K("g"), v |-> f], [k |-> K("f"), v |-> f] >>)
    [] n = 4 -> DictV(<< [k |-> K("f"), v |-> f], [k |-> K("a"), v |-> RefToB],
                         [k |-> K("b"), v |-> StrV(K("x"))] >>)

Objects == {Family(n, a, f) : n \in 1..4, a \in AValues, f \in FValues}

\* the registries the resolver may run under: the built-in hooks, and h
\* registered by the script
Registries ==
  {BuiltinHandlers}
  \cup {StoreHandler(BuiltinHandlers, K("h"), h) : h \in {"multiply_hook", "first_hook"}}

\* the registry of a script whose hook h reads the field a from the context
ContextRegistry == StoreHandler(BuiltinHandlers, K("h"), "add_hook")

\* hook calls whose handler reads the context: @value:a, @value:a.b.c,
\* @value:y and @h:21
ContextCalls ==
  { << HOOK_PREFIX >> \o HookValue \o << ":", "a" >>,
    << HOOK_PREFIX >> \o HookValue \o << ":", "a", ".", "b", ".", "c" >>,
    << HOOK_PREFIX >> \o HookValue \o << ":", "y" >>,
    << "@", "h", ":", "2", "1" >> }

\* the dicts whose field f is such a call
ContextObjects == {Family(n, a, StrV(s)) : n \in {1, 2, 4}, a \in AValues, s \in ContextCalls}

\* the registry of a script whose hook h always raises (error_hook)
FailingRegistry == StoreHandler(BuiltinHandlers, K("h"), "error_hook")

\* hook calls whose handler may raise: @h:21, @env:y (no such variable) and
\* @env:E
FailingCalls ==
  { << "@", "h", ":", "2", "1" >>,
    << HOOK_PREFIX >> \o HookEnv \o << ":", "y" >>,
    << HOOK_PREFIX >> \o HookEnv \o << ":", "E" >> }

\* the dicts whose field f is such a call
FailingObjects == {Family(n, a, StrV(s)) : n \in {1, 2, 4}, a \in AValues, s \in FailingCalls}

\* the dicts of the fields q in every order of declaration
Orderings(q) ==
  {DictV([i \in 1..Len(q) |-> q[p[i]]]) : p \in Permutations(1..Len(q))}

\* the hook calls @h:@{b} and @h:@{a}, whose argument is an interpolation
HookOfB == << "@", "h", ":", "@", "{", "b", "}" >>

HookOfA == << "@", "h", ":", "@", "{", "a", "}" >>

\* a chain of hook calls, each over the field before it: b = "2",
\* a = "@h:@{b}", f = "@h:@{a}"
ChainObjects ==
  Orderings(<< [k |-> K("b"), v |-> StrV(K("2"))],
               [k |-> K("a"), v |-> StrV(HookOfB)],
               [k |-> K("f"), v |-> StrV(HookOfA)] >>)

\* the texts @{b}:@{s} and 21@{a}: of test_nested_interpolation, where
\* message = "@{base}_@{suffix}" and meta = "prefix_@{message}_suffix"
MessageText == << "@", "{", "b", "}", ":", "@", "{", "s", "}" >>

MetaText == << "2", "1", "@", "{", "a", "}", ":" >>

\* an interpolation of an interpolation: b = "x" (base), s = "21" (suffix),
\* a = "@{b}:@{s}" (message), f = "21@{a}:" (meta)
NestedObjects ==
  Orderings(<< [k |-> K("b"), v |-> StrV(K("x"))],
               [k |-> K("s"), v |-> StrV(<< "2", "1" >>)],
               [k |-> K("a"), v |-> StrV(MessageText)],
               [k |-> K("f"), v |-> StrV(MetaText)] >>)

\* the passes of a session: the validation and one additional
\* resolve-and-validate pass
SessionPasses == 2

\* the resolution passes made over one dict
MaxPasses == 2

\* the dicts the registry's own runs resolve
HookObjects ==
  {DictV(<< [k |-> K("f"), v |-> StrV(s)] >>) :
     s \in {<< "@", "h", ":", "2", "1" >>, << "@", "n", ":", "x" >>, << "x" >>}}

(***************************************************************************)
(* Specifications                                                          *)
(***************************************************************************)

\* the session controller
Init == ScriptInitState /\ HookIdle /\ CtxIdle /\ ScanIdle /\ FieldsIdle /\ CaptureIdle

Next ==
  \/ \E name \in Names : BodyAssign(name) /\ UNCHANGED << hookVars, ctxVars, scanVars, fieldVars, captureVars >>
  \/ \E desc \in {"None", "train a model"} : ScriptInit(desc) /\ UNCHANGED << hookVars, ctxVars, scanVars, fieldVars, captureVars >>
  \/ ScriptReady /\ UNCHANGED << hookVars, ctxVars, scanVars, fieldVars, captureVars >>

Spec == Init /\ [][Next]_vars

\* the hook registry
InitHooks == ScriptIdle /\ HookIdle /\ CtxIdle /\ ScanIdle /\ FieldsIdle /\ CaptureIdle

NextHooks ==
  \/ \E hook \in HookNames, handler \in Handlers :
       Register(hook, handler) /\ UNCHANGED << scriptVars, ctxVars, scanVars, fieldVars, captureVars >>
  \/ \E hook \in HookNames : GetHandler(hook) /\ UNCHANGED << scriptVars, ctxVars, scanVars, fieldVars, captureVars >>
  \/ Clear /\ UNCHANGED << scriptVars, ctxVars, scanVars, fieldVars, captureVars >>
  \/ \E o \in HookObjects :
       ModelValidate(o) /\ input' = o /\ passes' = 1 /\ UNCHANGED << scriptVars, ctxVars, scanVars, fieldVars, captureVars >>

SpecHooks == InitHooks /\ [][NextHooks]_vars

\* the resolver over every input
InitResolve ==
  /\ ScriptIdle
  /\ CtxIdle
  /\ ScanIdle
  /\ FieldsIdle /\ CaptureIdle
  /\ \/ handlers \in Registries /\ obj \in Objects
     \/ handlers = ContextRegistry /\ obj \in ContextObjects
     \/ handlers = FailingRegistry /\ obj \in FailingObjects
     \/ handlers \in Registries /\ obj \in ChainObjects
     \/ handlers \in Registries /\ obj \in NestedObjects
  /\ ctx = FreshContext
  /\ input = obj
  /\ out = NoOut
  /\ passes = 0

\* a pass over obj; the session stops at the first pass that raises
NextResolve ==
  /\ passes < MaxPasses
  /\ out.err = "none"
  /\ ModelValidate(obj)
  /\ passes' = passes + 1
  /\ UNCHANGED << input, scriptVars, ctxVars, scanVars, fieldVars, captureVars >>

SpecResolve == InitResolve /\ [][NextResolve]_vars

\* the validation context under two threads
InitContext == ScriptIdle /\ HookIdle /\ CtxIdle /\ ScanIdle /\ FieldsIdle /\ CaptureIdle

NextContext ==
  \/ \E t \in Threads, data \in RootValues :
       EnterScope(t, data) /\ UNCHANGED << scriptVars, hookVars, scanVars, fieldVars, captureVars >>
  \/ \E t \in Threads, failed \in BOOLEAN :
       ExitScope(t, failed) /\ UNCHANGED << scriptVars, hookVars, scanVars, fieldVars, captureVars >>
  \/ \E t \in Threads : CallGetRootData(t) /\ UNCHANGED << scriptVars, hookVars, scanVars, fieldVars, captureVars >>
  \/ \E t \in Threads, path \in Paths :
       CallGetNestedValue(t, path) /\ UNCHANGED << scriptVars, hookVars, scanVars, fieldVars, captureVars >>

SpecContext == InitContext /\ [][NextContext]_vars

\* the scanner over every slice, with the namespace the slice leaves
InitScan ==
  /\ \E n \in 0..MaxSourceLines :
       \/ source \in [1..n -> DocShapes] /\ caller_globals = NamespaceOf(source)
       \/ /\ source \in [1..n -> ScanShapes]
          /\ caller_globals \in {NamespaceOf(source), ReboundNamespaceOf(source)}
  /\ scanned = NotScanned
  /\ initialized = FALSE
  /\ start = 0
  /\ init_globals = {}
  /\ description = "None"
  /\ save_path = "None"
  /\ sys_argv = << "prog" >>
  /\ lineno = 1
  /\ log = << >>
  /\ HookIdle
  /\ CtxIdle
  /\ FieldsIdle /\ CaptureIdle

NextScan ==
  \E filename \in Filenames :
    ScanSlice(filename) /\ UNCHANGED << scriptVars, hookVars, ctxVars, fieldVars, captureVars >>

SpecScan == InitScan /\ [][NextScan]_vars

\* make_fields_from_vars over the Variables of the tiers
InitFields ==
  /\ ScriptIdle
  /\ HookIdle
  /\ CtxIdle
  /\ ScanIdle
  /\ \E n \in 0..MaxVariables : variables \in [1..n -> TierVariables]
  /\ fields = NotBuilt
  /\ CaptureIdle

NextFields == MakeFields /\ UNCHANGED << scriptVars, hookVars, ctxVars, scanVars, captureVars >>

SpecFields == InitFields /\ [][NextFields]_vars

\* capture() called from a with statement: _parse_with_block(filename, line)
\* on every file of up to MaxFileLines lines after the opening statement's.
\* The thread that called capture() keeps running: no iteration waits
InitCapture ==
  /\ ScriptIdle
  /\ HookIdle
  /\ CtxIdle
  /\ ScanIdle
  /\ FieldsIdle
  /\ \E n \in 1..MaxFileLines : cached \in [1..n -> LineShapes]
  /\ line \in 1..Len(cached)
  /\ offset = 1
  /\ indent = 0
  /\ block = << >>
  /\ padding = 0
  /\ pc = "loop"
  /\ code = << >>

NextCapture ==
  \/ ParseIterate /\ UNCHANGED << scriptVars, hookVars, ctxVars, scanVars, fieldVars >>
  \/ ParseReturn /\ UNCHANGED << scriptVars, hookVars, ctxVars, scanVars, fieldVars >>
  \/ CaptureJoin /\ UNCHANGED << scriptVars, hookVars, ctxVars, scanVars, fieldVars >>

SpecCapture == InitCapture /\ [][NextCapture]_vars /\ WF_vars(NextCapture)

(***************************************************************************)
(* Claims about the session controller (specification Spec)                *)
(***************************************************************************)

\* the call the step appends to the log is a call of `o`
Called(o) == Len(log') = Len(log) + 1 /\ log'[Len(log')].op = o

\* the last call of the log was made on the line just before the current one
JustCalled(o) == log # << >> /\ log[Len(log)].op = o /\ log[Len(log)].line = lineno - 1

\* the tiers of a session: what the command line and the configuration file
\* named by -c supply
CliSupplies(argv, name) == InArgv(argv, Flag(name))

FileSupplies(argv, name) ==
  /\ InArgv(argv, "-c")
  /\ ArgvIndex(argv, "-c") < Len(argv)
  /\ name \in FileDeclares(argv[ArgvIndex(argv, "-c") + 1])

\* the value layered precedence gives a declared name
MergedValue(argv, name) ==
  IF CliSupplies(argv, name) THEN CliValue(name)
  ELSE IF FileSupplies(argv, name) THEN FileValue(name)
  ELSE CodeValue(name)

\* C1: after end() every declared name holds the CLI value if the CLI tier
\* supplies it, else the file value if the configuration file supplies it,
\* else the code default.
C1_LayeredPrecedence ==
  (JustCalled("ready") /\ log[Len(log)].err # "NotInitialized")
    => \A n \in NewVars(caller_globals, init_globals) :
         caller_globals[n] = MergedValue(sys_argv, n)

\* C2: ready() on a session that is not initialized raises NotInitialized and
\* leaves the session as it was, and the init() that follows the failure is
\* accepted.
C2_ReadyBeforeInit ==
  [][ /\ (~initialized /\ Called("ready"))
           => /\ log'[Len(log')].err = "NotInitialized"
              /\ ~initialized'
              /\ UNCHANGED << start, init_globals, description, save_path, caller_globals >>
      /\ (log # << >> /\ log[Len(log)].err = "NotInitialized" /\ Called("init"))
           => /\ log'[Len(log')].err = "none"
              /\ initialized' ]_vars

\* a ready() failed as not initialized and the init() after it was accepted
C2_Witness ==
  \E i \in 1..(Len(log) - 1) :
    /\ log[i].op = "ready" /\ log[i].err = "NotInitialized"
    /\ log[i + 1].op = "init" /\ log[i + 1].err = "none"

\* C3: init() on a session that is already initialized raises the reentrancy
\* error and replaces neither the boundary line nor the snapshot of the
\* namespace taken by the first init().
C3_InitReentrancy ==
  [][ (initialized /\ Called("init"))
        => /\ log'[Len(log')].err = "ReentrancyError"
           /\ UNCHANGED << initialized, start, init_globals, description >> ]_vars

\* a second init() was refused on a later line, after the namespace changed
C3_Witness ==
  /\ log # << >>
  /\ log[Len(log)].op = "init" /\ log[Len(log)].err = "ReentrancyError"
  /\ start < log[Len(log)].line
  /\ init_globals # GlobalKeys(caller_globals)
  /\ \A i \in 1..Len(log) : log[i].op = "init"

\* C4: sessions run one after another: the init() that follows the ready()
\* of an initialized session is accepted.
C4_SessionsRepeat ==
  \A i \in 1..(Len(log) - 1) :
    (log[i].op = "ready" /\ log[i].err # "NotInitialized" /\ log[i + 1].op = "init")
      => log[i + 1].err = "none"

(***************************************************************************)
(* Claims about the hook registry (specification SpecHooks)                *)
(***************************************************************************)

\* C5: register(name, handler) of a registered name raises the duplicate
\* registration error and leaves the registry as it was: the name is still
\* bound to the handler registered first.
C5_DuplicateRegistration ==
  [][ (out'.op = "register" /\ IsRegistered(handlers, out'.hook))
        => /\ out'.err = "DuplicateRegistration"
           /\ handlers' = handlers ]_vars

\* a registration of another handler was refused and the first one is bound
C5_Witness ==
  /\ out.op = "register"
  /\ out.err = "DuplicateRegistration"
  /\ out.hook = K("h")
  /\ handlers[K("h")] = "first_hook"
  /\ out.handler = "second_hook"

\* the field f of a dict
FieldF(o) == DictGet(o.d, K("f"))

\* C6: after clear() no name is registered: registering a name succeeds
\* again, and get_handler and the resolution of a hook call fail as
\* unregistered for every name that has not been registered since.
C6_ClearEmptiesRegistry ==
  [][ /\ (out'.op = "clear") => DOMAIN handlers' = {}
      /\ (out.op = "clear" /\ out'.op = "register")
           => /\ out'.err = "none"
              /\ IsRegistered(handlers', out'.hook)
              /\ handlers'[out'.hook] = out'.handler
      /\ (out'.op = "get_handler" /\ ~IsRegistered(handlers, out'.hook))
           => out'.err = "UnregisteredHandler"
      /\ (out'.op = "model_validate" /\ DOMAIN handlers = {} /\ StartsWith(FieldF(input').s, << "@" >>))
           => /\ out'.err = "UnregisteredHandler"
              /\ obj' = input' ]_vars

\* the built-in name `value`, registered when hooks.py was imported, was
\* registered again: only a clear() makes that possible
C6_Witness ==
  /\ out.op = "register"
  /\ out.err = "none"
  /\ out.hook = HookValue
  /\ handlers[HookValue] = "first_hook"

(***************************************************************************)
(* Claims about the resolver (specification SpecResolve)                   *)
(***************************************************************************)

\* the characters of hook names
NameChars == {"h", "n", "x", "1", "2"}

\* the text has the form @prefix:argument; its prefix
IsHookCall(s) ==
  LET c == FindChar(s, ":", 1) IN
  /\ s # << >> /\ s[1] = "@"
  /\ c >= 3
  /\ \A i \in 2..(c - 1) : s[i] \in NameChars

HookPrefix(s) == SubSeq(s, 2, FindChar(s, ":", 1) - 1)

\* the session is over: every pass was made, or a pass raised
SessionOver == passes = MaxPasses \/ out.err # "none"

\* C7: a field value @prefix:argument whose prefix is not registered makes
\* the resolution raise the unregistered-handler error; the value is never
\* passed through as text.
C7_UnregisteredIsHardError ==
  (SessionOver /\ passes >= 1 /\ IsHookCall(FieldF(input).s)
     /\ ~IsRegistered(handlers, HookPrefix(FieldF(input).s)))
    => out.err = "UnregisteredHandler"

\* the text @h:21
DoubleCall == << "@", "h", ":", "2", "1" >>

\* C8: a field value that is entirely one hook call is replaced by the value
\* the handler returns, in its own type: with a handler returning
\* int(arg) * 2, "@h:21" resolves to the integer 42 and not to the text "42".
C8_HookNativeType ==
  (passes = 1 /\ IsRegistered(handlers, K("h")) /\ handlers[K("h")] = "multiply_hook"
     /\ FieldF(input) = StrV(DoubleCall))
    => /\ out.err = "none"
       /\ FieldF(obj) = IntV(42)
       /\ FieldF(obj) # StrV(<< "4", "2" >>)

\* @h:21 was resolved by the doubling handler
C8_Witness ==
  /\ passes = 1
  /\ FieldF(input) = StrV(DoubleCall)
  /\ out.calls = << [hook |-> K("h"), handler |-> "multiply_hook", value |-> << "2", "1" >>] >>
  /\ FieldF(obj) = IntV(42)

\* the value carries no @ marker: it is no string, or a string without @
NoMarker(v) == ~IsStr(v) \/ \A i \in 1..Len(v.s) : v.s[i] # "@"

\* C9: a value with no @ marker, and every value that is not a string, comes
\* out of the resolution identical to its input, and a dict of such values
\* invokes no handler and makes no context lookup.
C9_NoMarkerRoundTrip ==
  passes >= 1
    => /\ \A i \in 1..Len(input.d) :
            NoMarker(input.d[i].v) => obj.d[i] = input.d[i]
       /\ (\A i \in 1..Len(input.d) : NoMarker(input.d[i].v))
            => /\ out.err = "none"
               /\ out.calls = << >>
               /\ out.lookups = << >>

\* a dict of an int and of the text 21:21 went through
C9_Witness ==
  /\ passes >= 1
  /\ \A i \in 1..Len(input.d) : NoMarker(input.d[i].v)
  /\ DictHas(input.d, K("a")) /\ DictGet(input.d, K("a")) = IntV(21)
  /\ FieldF(input) = StrV(<< "2", "1", ":", "2", "1" >>)
  /\ obj = input

\* the interpolations @{a.b.c} and @{a.y}
PathABC == << "@", "{", "a", ".", "b", ".", "c", "}" >>

PathAY == << "@", "{", "a", ".", "y", "}" >>

\* C10: @{a.b.c} against {a: {b: {c: "x"}}} resolves to "x"; a path with a
\* missing segment, or one that goes through a value that is no mapping,
\* makes the resolution of the field fail with the missing-path error.
C10_InterpolationPath ==
  (passes = 1 /\ DictHas(input.d, K("a")) /\ DictGet(input.d, K("a")) \in AValues)
    => /\ (FieldF(input) = StrV(PathABC) /\ DictGet(input.d, K("a")) = Nested)
            => (out.err = "none" /\ FieldF(obj) = StrV(K("x")))
       /\ (FieldF(input) = StrV(PathAY))
            => out.err \in MissingPathErrors

\* the text of s from position i on with every @{path} replaced by str() of
\* the value at its path in root, and every other character kept
RECURSIVE Piecewise(_, _, _)
Piecewise(s, i, root) ==
  IF i > Len(s) THEN << >>
  ELSE LET e == PrefixedExpansionEnd(s, i) IN
       IF e > 0
       THEN Str(GetNestedValue(root, SubSeq(s, i + 2, e - 1)).val) \o Piecewise(s, e + 1, root)
       ELSE << s[i] >> \o Piecewise(s, i + 1, root)

\* s holds at least one @{path} and every path of s leads to a value in root
AllResolve(s, root) ==
  LET m == FindIter(s, 1) IN
  /\ m # << >>
  /\ \A i \in 1..Len(m) : GetNestedValue(root, m[i].group).ok

\* the position of a key in a dict
KeyIndex(d, key) == CHOOSE i \in 1..Len(d) : d[i].k = key

\* the data being validated at the time the pass resolves f: the fields
\* before f have been assigned, f and the fields after it are as they were
\* handed in
DataAtF ==
  DictV([i \in 1..Len(input.d) |->
           IF i < KeyIndex(input.d, K("f")) THEN obj.d[i] ELSE input.d[i]])

\* the text @{a}:@{a.b.c}
TwoPaths == << "@", "{", "a", "}", ":" >> \o PathABC

ValueOfAAtF ==
  IF KeyIndex(input.d, K("a")) < KeyIndex(input.d, K("f"))
  THEN DictGet(obj.d, K("a"))
  ELSE DictGet(input.d, K("a"))

\* the text @value:a
ValueOfA == << "@" >> \o HookValue \o << ":", "a" >>

\* the handler bound to h reads the field a from the context
ReadsContext == IsRegistered(handlers, K("h")) /\ handlers[K("h")] = "add_hook"

\* C12: while a pass is active, a handler that reads another declared field
\* from the context succeeds and receives the value the field has in the data
\* being validated: @value:a resolves to that value, and a handler adding its
\* argument to the field a returns their sum.
C12_ContextReadMidResolution ==
  (passes = 1 /\ DictHas(input.d, K("a")))
    => /\ (FieldF(input) = StrV(ValueOfA))
            => /\ out.err = "none"
               /\ FieldF(obj) = ValueOfAAtF
       /\ (FieldF(input) = StrV(DoubleCall) /\ ReadsContext)
            => /\ out.err \notin MissingPathErrors
               /\ out.lookups = << K("a") >>
               /\ ValueOfAAtF.t = "int"
                    => (out.err = "none" /\ FieldF(obj) = IntV(ValueOfAAtF.n + 21))

\* the handler of @h:21 read a = 21 from the context and returned 42
C12_Witness ==
  /\ passes = 1
  /\ ReadsContext
  /\ FieldF(input) = StrV(DoubleCall)
  /\ DictGet(input.d, K("a")) = IntV(21)
  /\ out.calls = << [hook |-> K("h"), handler |-> "add_hook", value |-> << "2", "1" >>] >>
  /\ out.lookups = << K("a") >>
  /\ FieldF(obj) = IntV(42)

(***************************************************************************)
(* Claims about the validation context (specification SpecContext)         *)
(***************************************************************************)

\* the step is thread t leaving a scope
Leaves(t) == got'.thread = t /\ got'.op \in {"exit", "fail"}

\* C13: root data is torn down only when the outermost scope closes: after
\* a nested scope exits, the data installed by the outermost scope is still
\* the root data; after the outermost scope exits, no root data is active.
C13_TeardownAtOutermost ==
  [][ \A t \in Threads :
        Leaves(t)
          => IF Len(scopes[t]) > 1
             THEN /\ tl'[Slot(t)].hasData
                  /\ GetRootData(tl'[Slot(t)]) = scopes[t][1].data
             ELSE /\ ~tl'[Slot(t)].hasData
                  /\ GetRootData(tl'[Slot(t)]) = NoData ]_vars

\* a nested scope entered with other data was left, and the root data is
\* the data of the scope that is still open
C13_Witness ==
  /\ got.thread = "t1" /\ got.op = "exit"
  /\ Len(scopes["t1"]) = 1
  /\ got.val # scopes["t1"][1].data
  /\ GetRootData(tl[Slot("t1")]) = scopes["t1"][1].data

\* C14: when the body of a scope raises, at any depth, the depth counter
\* returns to the value it had before the scope was entered, and the root
\* data is removed if that value is zero.
C14_DepthSymmetricOnFailure ==
  [][ \A t \in Threads :
        (got'.thread = t /\ got'.op = "fail")
          => LET top == scopes[t][Len(scopes[t])] IN
             /\ tl'[Slot(t)].depth = top.before
             /\ (top.before = 0) => ~tl'[Slot(t)].hasData
             /\ (top.before > 0) => tl'[Slot(t)].hasData ]_vars

\* the body of a nested scope raised and the counter is back at one
C14_Witness ==
  /\ got.thread = "t1" /\ got.op = "fail"
  /\ Len(scopes["t1"]) = 1
  /\ tl[Slot("t1")].depth = 1
  /\ tl[Slot("t1")].hasData

\* C20: threads do not leak context data into each other: a call made by one
\* thread changes neither the root data nor the depth counter of another, and
\* the root data a thread reads is the data its own outermost scope
\* installed, or none when it is inside no scope.
C20_ThreadIsolation ==
  [][ \A t \in Threads :
        /\ (got'.thread # t) => tl'[Slot(t)] = tl[Slot(t)]
        /\ (got'.thread = t /\ got'.op = "get_root_data")
             => got'.val = (IF scopes[t] = << >> THEN NoData ELSE scopes[t][1].data) ]_vars

\* both threads are inside scopes entered with different data, and t2 read
\* its own
C20_Witness ==
  /\ scopes["t1"] # << >> /\ scopes["t2"] # << >>
  /\ scopes["t1"][1].data # scopes["t2"][1].data
  /\ got.thread = "t2" /\ got.op = "get_root_data"
  /\ got.val = scopes["t2"][1].data
  /\ tl[Slot("t1")].depth # tl[Slot("t2")].depth

(***************************************************************************)
(* Claims about the scanner (specification SpecScan)                       *)
(***************************************************************************)

\* the slice assigns the name at its top level
Assigns(src, name) ==
  \E i \in 1..Len(src) : src[i].kind \in {"assign", "annassign"} /\ src[i].name = name

\* C15: a name that starts with the private prefix never becomes a field: no
\* Variable the scanner returns and no field ready() would expose to the
\* command line is the private name, and the binding of the private name in
\* the namespace is left as the script assigned it.
C15_PrivateNeverField ==
  (scanned.op = "get_script_vars")
    => /\ \A i \in 1..Len(scanned.vars) : scanned.vars[i].name # "_seed"
       /\ "_seed" \notin NewVars(caller_globals, init_globals)
       /\ Assigns(source, "_seed") => caller_globals["_seed"] = CodeValue("_seed")

\* a slice that assigns device and _seed was scanned: device is the only
\* Variable, and _seed is still bound to the value the slice gave it
C15_Witness ==
  /\ scanned.op = "get_script_vars" /\ scanned.err = "none"
  /\ Assigns(source, "_seed") /\ Assigns(source, "device")
  /\ Len(scanned.vars) = 1 /\ scanned.vars[1].name = "device"
  /\ caller_globals["_seed"] = "7"

DeclLines(src, name) ==
  {i \in 1..Len(src) : src[i].kind \in {"assign", "annassign"} /\ src[i].name = name}

\* the description the scanner gave the name
DescriptionOf(name) ==
  LET i == CHOOSE i \in 1..Len(scanned.vars) : scanned.vars[i].name = name
  IN scanned.vars[i].docstring

\* the words of the comments above a field
IsAboveText(d) == d # NoData /\ d.s # << >> /\ \A i \in 1..Len(d.s) : d.s[i] \in {"c", " "}

\* C17: the description of a declaration is chosen by first-match
\* precedence.  A trailing comment on the line of the declaration decides:
\* `#!` gives no description, `#:` and `#` give their text without the
\* marker, whatever follows or precedes the line.  Without one, a string
\* literal on the next line is the description; without either, the
\* whole-line comments directly above are.
C17_DescriptionPrecedence ==
  (scanned.op = "get_script_vars" /\ scanned.err = "none"
     /\ Cardinality(DeclLines(source, "device")) = 1)
    => LET i == CHOOSE i \in DeclLines(source, "device") : TRUE
           l == source[i]
           d == DescriptionOf("device")
           docNext == i < Len(source) /\ source[i + 1].kind = "string"
                        /\ source[i + 1].comment = << >>
           above == i > 1 /\ source[i - 1].kind = "comment"
       IN /\ (l.comment = TrailBang) => d = NoData
          /\ (l.comment \in {TrailPlain, TrailColon}) => d = StrV(<< "t" >>)
          /\ (l.comment = << >> /\ docNext) => d = StrV(<< "d" >>)
          /\ (l.comment = << >> /\ ~docNext /\ above) => IsAboveText(d)

(***************************************************************************)
(* Further claims about the session controller (specification Spec)        *)
(***************************************************************************)

\* every option of the command line that takes a value has one
WellFormed(argv) ==
  /\ InArgv(argv, "-c") => ArgvIndex(argv, "-c") < Len(argv)
  /\ InArgv(argv, "-s") => ArgvIndex(argv, "-s") < Len(argv)

\* C18: end() of an initialized session with a well-formed command line
\* succeeds, writes the final value of every field into the enclosing
\* namespace and exposes the same values as the snapshot `values` of the
\* controller.
C18_WriteBackAndSnapshot ==
  (JustCalled("ready") /\ log[Len(log)].err # "NotInitialized" /\ WellFormed(sys_argv))
    => /\ log[Len(log)].err = "none"
       /\ "values" \in ScriptAttributes
       /\ \A n \in NewVars(caller_globals, init_globals) :
            caller_globals[n] = MergedValue(sys_argv, n)

\* C19: a session that fails does not poison the controller: the init()
\* that follows a failed ready() is accepted, and no root data of the
\* validation context survives the failure.
C19_FailureDoesNotPoison ==
  /\ \A i \in 1..(Len(log) - 1) :
       (log[i].op = "ready" /\ log[i].err # "none" /\ log[i + 1].op = "init")
         => log[i + 1].err = "none"
  /\ (log # << >> /\ log[Len(log)].err # "none") => ~ctx.hasData

(***************************************************************************)
(* Further claims about the resolver (specification SpecResolve)           *)
(***************************************************************************)

\* the last handler a pass invoked, and what it does with its argument
\* against the data being validated
LastCall == out.calls[Len(out.calls)]

LastOutcome == ApplyHandler(LastCall.handler, LastCall.value, obj)

\* some field still holds the reference of the last call
ReferenceInPlace ==
  \E i \in 1..Len(obj.d) :
    /\ RequiresResolution(obj.d[i].v)
    /\ ParseReference(obj.d[i].v.s) = [hook |-> LastCall.hook, value |-> LastCall.value]

\* C21: when the handler a pass invokes raises, the pass fails with the
\* handler's own error, the field keeps the reference (nothing is
\* substituted for it) and no further pass is made.
C21_HandlerFailurePropagates ==
  (passes >= 1 /\ out.calls # << >> /\ ~LastOutcome.ok)
    => /\ out.err = LastOutcome.err
       /\ ReferenceInPlace
       /\ ~ENABLED NextResolve

\* error_hook raised on @h:21, and env_hook on @env:y
C21_Witness ==
  /\ passes = 1
  /\ out.calls # << >>
  /\ \/ LastCall.handler = "error_hook" /\ out.err = "HandlerError"
     \/ LastCall.handler = "env_hook" /\ out.err = "MissingEnvironmentVariable"
  /\ FieldF(obj) = FieldF(input)

\* the handler bound to h doubles its argument
Doubles == IsRegistered(handlers, K("h")) /\ handlers[K("h")] = "multiply_hook"

\* C26: a hook call whose argument is an interpolation ends the session
\* resolved: the handler was invoked with the argument in which @{a} is
\* replaced by the final value of a, and the field holds the handler's
\* result.  It holds along a chain: with b = "2", a = "@h:@{b}" and
\* f = "@h:@{a}" under a doubling handler, a ends as 4 and f as 8.
C26_InterpolatedCallResolves ==
  (SessionOver /\ passes >= 1 /\ Doubles /\ DictHas(input.d, K("a"))
     /\ FieldF(input) = StrV(HookOfA))
    => /\ DictGet(obj.d, K("a")).t = "int"
            => /\ out.err = "none"
               /\ FieldF(obj) = IntV(2 * DictGet(obj.d, K("a")).n)
       /\ DictGet(input.d, K("a")) = StrV(HookOfB)
            => /\ out.err = "none"
               /\ DictGet(obj.d, K("a")) = IntV(4)
               /\ FieldF(obj) = IntV(8)

\* the text of f as handed in, after its leading @
CallText == Tail(FieldF(input).s)

\* f is a hook call without interpolation: @prefix or @prefix:argument
IsPlainCall ==
  /\ IsStr(FieldF(input))
  /\ StartsWith(FieldF(input).s, << "@" >>)
  /\ ~Contains(FieldF(input).s, << "@", "{" >>)
  /\ CallText # << >> /\ CallText[1] \notin {"@", ":"}

\* its prefix, the text up to the first ':', and its argument, the text
\* after it
CallPrefix ==
  IF \E i \in 1..Len(CallText) : CallText[i] = ":"
  THEN SubSeq(CallText, 1, (CHOOSE i \in 1..Len(CallText) :
                              CallText[i] = ":" /\ \A j \in 1..(i - 1) : CallText[j] # ":") - 1)
  ELSE CallText

CallArgument ==
  IF Len(CallPrefix) = Len(CallText) THEN << >>
  ELSE SubSeq(CallText, Len(CallPrefix) + 2, Len(CallText))

\* C28: a hook call is parsed into prefix and raw argument, and the handler
\* registered under the prefix is invoked with exactly that argument and
\* the active context: the argument of @prefix:argument is all the text
\* after the first ':' (further ':' stay in it), the argument of @prefix is
\* the empty string.
C28_PrefixAndRawArgument ==
  (passes = 1 /\ IsPlainCall /\ IsRegistered(handlers, CallPrefix))
    => /\ out.calls = << [hook |-> CallPrefix, handler |-> handlers[CallPrefix],
                          value |-> CallArgument] >>
       /\ out.err # "NoContext"
       /\ handlers[CallPrefix] = "first_hook"
            => (out.err = "none" /\ FieldF(obj) = StrV(CallArgument))
       /\ handlers[CallPrefix] = "value_hook"
            => \E i \in 1..Len(out.lookups) : out.lookups[i] = CallArgument

\* @h:: handed ":" to the handler of h
C28_Witness ==
  /\ passes = 1
  /\ FieldF(input) = StrV(<< "@", "h", ":", ":" >>)
  /\ out.calls = << [hook |-> K("h"), handler |-> "first_hook", value |-> K(":")] >>
  /\ FieldF(obj) = StrV(K(":"))

\* @h, with no ':', invoked the handler of h with the empty string
C28_WitnessNoArgument ==
  /\ passes = 1
  /\ FieldF(input) = StrV(<< "@", "h" >>)
  /\ out.calls = << [hook |-> K("h"), handler |-> "first_hook", value |-> << >>] >>
  /\ FieldF(obj) = StrV(<< >>)

\* the value holds no @{
NoExpansionLeft(v) == ~IsStr(v) \/ ~Contains(v.s, << "@", "{" >>)

FirstSeen(name) == CHOOSE i \in 1..Len(variables) :
  variables[i].name = name /\ \A j \in 1..(i - 1) : variables[j].name # name

LastSeen(name) == CHOOSE i \in 1..Len(variables) :
  variables[i].name = name /\ \A j \in (i + 1)..Len(variables) : variables[j].name # name

\* C22: the fields built from the Variables of the tiers hold each declared
\* name exactly once, in the order in which the names are first declared; a
\* later declaration of a name gives the field its type and value and leaves
\* its position.
C22_FirstSeenOrder ==
  fields.built
    => /\ {fields.d[i].k : i \in 1..Len(fields.d)} = {variables[i].name : i \in 1..Len(variables)}
       /\ \A i, j \in 1..Len(fields.d) :
            /\ fields.d[i].k = fields.d[j].k => i = j
            /\ i < j => FirstSeen(fields.d[i].k) < FirstSeen(fields.d[j].k)
       /\ \A i \in 1..Len(fields.d) :
            fields.d[i].v = MakeField(variables[LastSeen(fields.d[i].k)])

\* device is declared, then epochs, then device again with another type
\* and value: device stays first and holds the later declaration
C22_Witness ==
  /\ fields.built
  /\ Len(variables) = 3
  /\ variables[1].name = "device" /\ variables[1].hint = "str" /\ variables[1].value = "cpu"
  /\ variables[2].name = "epochs"
  /\ variables[3].name = "device" /\ variables[3].hint = "int" /\ variables[3].value = "tpu"
  /\ Len(fields.d) = 2
  /\ fields.d[1] = [k |-> "device", v |-> [hint |-> "int", default |-> "tpu", description |-> NoData]]
  /\ fields.d[2].k = "epochs"

(***************************************************************************)
(* Further claims about the validation context (specification SpecContext) *)
(***************************************************************************)

\* C23: root_data(data) installs data only when no root is active: entering
\* a scope inside another leaves the root data of the outer scope in place,
\* and get_root_data() inside the nested scope reads the outer data.
C23_InstallOnlyWhenNoneActive ==
  [][ \A t \in Threads :
        /\ (got'.thread = t /\ got'.op = "enter")
             => GetRootData(tl'[Slot(t)]) = scopes'[t][1].data
        /\ (got'.thread = t /\ got'.op = "enter" /\ scopes[t] # << >>)
             => GetRootData(tl'[Slot(t)]) = GetRootData(tl[Slot(t)])
        /\ (got'.thread = t /\ got'.op = "get_root_data" /\ scopes[t] # << >>)
             => got'.val = scopes[t][1].data ]_vars

\* inside a scope nested in a scope entered with other data, the thread
\* read the data of the outer scope
C23_Witness ==
  /\ Len(scopes["t1"]) = 2
  /\ scopes["t1"][1].data # scopes["t1"][2].data
  /\ got.thread = "t1" /\ got.op = "get_root_data"
  /\ got.val = scopes["t1"][1].data

\* the value reached from data by following the first n segments, and
\* whether every one of them can be followed
RECURSIVE Follow(_, _, _)
Follow(data, keys, n) ==
  IF n = 0 THEN data ELSE DictGet(Follow(data, keys, n - 1).d, keys[n])

RECURSIVE Followable(_, _, _)
Followable(data, keys, n) ==
  \/ n = 0
  \/ /\ Followable(data, keys, n - 1)
     /\ IsDict(Follow(data, keys, n - 1))
     /\ DictHas(Follow(data, keys, n - 1).d, keys[n])

\* the root data of the thread that made the last call
RootOfCaller == IF scopes[got.thread] = << >> THEN NoData ELSE scopes[got.thread][1].data

\* C24: get_nested_value(path) raises, and returns nothing, when no root is
\* active, when a segment of the path is not a key of the mapping reached so
\* far and when a segment is applied to a value that is no mapping;
\* otherwise it returns the value reached by following every segment.
C24_GetFailsOrFollows ==
  got.op = "get_nested_value"
    => LET keys == Split(got.path, ".") IN
       IF RootOfCaller # NoData /\ Followable(RootOfCaller, keys, Len(keys))
       THEN got.ok /\ got.err = "none" /\ got.val = Follow(RootOfCaller, keys, Len(keys))
       ELSE ~got.ok /\ got.val = NoData /\ got.err \in MissingPathErrors

\* a.b was applied to a = "x", and a.b was followed into a = {b: "x"}
C24_Witness ==
  /\ got.op = "get_nested_value"
  /\ got.path = << "a", ".", "b" >>
  /\ \/ got.err = "NotTraversable" /\ ~got.ok
     \/ got.ok /\ got.val = StrV(<< "x" >>)

\* C29: over every sequence of entries and exits of root_data scopes, the
\* body returning or raising, the depth counter of a thread is never
\* negative and its root data is set exactly when the counter is above zero.
C29_DepthAndRootAgree ==
  \A t \in Threads :
    /\ tl[Slot(t)].depth >= 0
    /\ tl[Slot(t)].hasData <=> tl[Slot(t)].depth > 0
    /\ tl[Slot(t)].depth = Len(scopes[t])

\* a thread left a scope because its body raised, after it had entered a
\* nested scope, and is at depth zero without root data
C29_Witness ==
  /\ got.thread = "t1" /\ got.op = "fail"
  /\ tl[Slot("t1")].depth = 0
  /\ ~tl[Slot("t1")].hasData
  /\ tl[Slot("t2")].depth = 2 /\ tl[Slot("t2")].hasData

(***************************************************************************)
(* Further claims about the scanner (specification SpecScan)               *)
(***************************************************************************)

\* the top-level plain and annotated assignments of the slice to a name
\* without the private prefix, in the order of the slice
Declarations(src) ==
  SelectSeq(src, LAMBDA l : l.kind \in {"assign", "annassign"} /\ l.name # "_seed")

\* C25: the scanner returns, in declaration order, exactly the targets of
\* the top-level plain and annotated assignments to a name without the
\* private prefix; nested assignments and attribute targets are left out;
\* the value of each is the value the name is bound to in the live
\* namespace, not the literal of the slice.
C25_DeclarationOrderLiveValue ==
  (scanned.op = "get_script_vars" /\ scanned.err = "none")
    => /\ Len(scanned.vars) = Len(Declarations(source))
       /\ \A i \in 1..Len(scanned.vars) :
            /\ scanned.vars[i].name = Declarations(source)[i].name
            /\ scanned.vars[i].value = caller_globals[scanned.vars[i].name]

\* a slice of an annotated assignment, a nested one, an attribute target and
\* a plain assignment, in a namespace that rebound device: epochs and device
\* are returned, device with the live value
C25_Witness ==
  /\ scanned.op = "get_script_vars" /\ scanned.err = "none"
  /\ Len(source) = 4
  /\ source[1].kind = "annassign" /\ source[2].kind = "nested"
  /\ source[3].kind = "attr" /\ source[4].kind = "assign" /\ source[4].name = "device"
  /\ caller_globals["device"] = CliValue("device")
  /\ Len(scanned.vars) = 2
  /\ scanned.vars[1].name = "epochs"
  /\ scanned.vars[2].name = "device" /\ scanned.vars[2].value = CliValue("device")

(***************************************************************************)
(* Claims about the code capture (specification SpecCapture)               *)
(***************************************************************************)

\* C30: _parse_with_block terminates for every file and starting line: the
\* scan of the lines after the opening statement always stops, and capture()
\* goes on to join what it returned, also when the line after the opening
\* statement is not indented or the file ends right after it.
C30_ParseTerminates == <>(pc = "captured")

====
